---- MODULE Spec2Model ----
(***************************************************************************)
(* Model of T3XUpdater (t3xupdate.py): image validation, the bootloader    *)
(* entry handshake and the chunked upload, one step per device exchange.   *)
(* Byte strings are sequences of one-character strings; NUL and FF stand   *)
(* for the bytes 0x00 and 0xff.                                            *)
(***************************************************************************)
EXTENDS Integers, Sequences, FiniteSets

\* ------------------------------------------------------------------ bounds
MaxChunks == 2
PadLen == 2
MaxPayload == 2

\* --------------------------------------------------------------- constants
ChunkSize == 2048
TailWindow == 256
HeaderSize == 256
SettleTime == 3
VersionLen == 4
UpdateStrSkip == 8
ProductField == 2

NUL == "NUL"
FF == "FF"

JC_identity == <<"J","C","_","i","d","e","n","t","i","t","y">>
JC_version == <<"J","C","_","v","e","r","s","i","o","n">>
JC_boot == <<"J","C","_","b","o","o","t">>
JC_User == <<"J","C","_","U","s","e","r">>
JC_reset == <<"J","C","_","r","e","s","e","t">>
update_jcxx == <<"u","p","d","a","t","e","_","j","c","x","x">>
ack_jcxx == <<"a","c","k","_","j","c","x","x">>
JCID == <<"J","C","I","D">>
vers == <<"v","e","r","s">>

\* ------------------------------------------------------- bytes operations
Min(a, b) == IF a < b THEN a ELSE b

Max(a, b) == IF a > b THEN a ELSE b

\* s[m-1:n] of Python, for 1-based m..n clipped to the string
Slice(s, m, n) ==
    IF Max(1, m) > Min(Len(s), n) THEN <<>> ELSE SubSeq(s, Max(1, m), Min(Len(s), n))

\* bytes.rstrip(b)
RECURSIVE RStrip(_, _)
RStrip(s, b) ==
    IF s # <<>> /\ s[Len(s)] = b THEN RStrip(Slice(s, 1, Len(s) - 1), b) ELSE s

\* bytes.split(sep) for a one-byte separator: the list of fields
RECURSIVE SplitAcc(_, _, _, _)
SplitAcc(s, sep, cur, acc) ==
    IF s = <<>> THEN Append(acc, cur)
    ELSE IF Head(s) = sep THEN SplitAcc(Tail(s), sep, <<>>, Append(acc, cur))
    ELSE SplitAcc(Tail(s), sep, Append(cur, Head(s)), acc)

Split(s, sep) == SplitAcc(s, sep, <<>>, <<>>)

\* s[-n:]
LastN(s, n) == Slice(s, Len(s) - n + 1, Len(s))

\* s[n:]
From(s, n) == Slice(s, n + 1, Len(s))

HexDigits == <<"0","1","2","3","4","5","6","7","8","9","a","b","c","d","e","f">>

RECURSIVE Pow16(_)
Pow16(k) == IF k = 0 THEN 1 ELSE 16 * Pow16(k - 1)

\* f'0x{n:08x}' for n < 16^8
Hex8(n) == <<"0", "x">> \o [i \in 1..8 |-> HexDigits[((n \div Pow16(8 - i)) % 16) + 1]]

Pad(s, k) == s \o [i \in 1..k |-> NUL]

\* ------------------------------------------------------------ image files
\* The value None of Python; it differs from every byte string.
None == <<"None">>

T3S == <<"T","3","S">>
T3M == <<"T","3","M">>
V1234 == <<"1","2","3","4">>
V1000 == <<"1","0","0","0">>

\* Total image sizes: up to MaxChunks chunks, with the remainders around the
\* chunk and tail-window boundaries; the size field adds 0x100, so no image
\* is shorter than the header.
Remainders == {0, 1, TailWindow, TailWindow + 1, ChunkSize - 1}

Sizes == {s \in {k * ChunkSize + r : k \in 0..(MaxChunks - 1), r \in Remainders} :
            s >= HeaderSize}

\* int.from_bytes(b, "big") of a sequence of byte values 0..255
RECURSIVE FromBytesBig(_)
FromBytesBig(b) ==
    IF b = <<>> THEN 0 ELSE FromBytesBig(Slice(b, 1, Len(b) - 1)) * 256 + b[Len(b)]

RECURSIVE Pow256(_)
Pow256(k) == IF k = 0 THEN 1 ELSE 256 * Pow256(k - 1)

\* n.to_bytes(k, "big"), to write the header fields of the images
ToBytesBig(n, k) == [i \in 1..k |-> (n \div Pow256(k - i)) % 256]

\* The CRC is written with functions, not operators: TLC computes the
\* argument of a function application before it applies the function.

\* a ^ b on non-negative integers
Xor[a \in Nat, b \in Nat] ==
    IF a = 0 THEN b
    ELSE IF b = 0 THEN a
    ELSE (((a % 2) + (b % 2)) % 2) + 2 * Xor[a \div 2, b \div 2]

\* 0x18005 without its top bit, bit-reversed (rev=True)
CrcPolyRev == 40961

\* initCrc=0xFFFF
CrcInit == 65535

\* one bit of the reflected CRC
CrcBit[crc \in Nat] == IF crc % 2 = 1 THEN Xor[crc \div 2, CrcPolyRev] ELSE crc \div 2

CrcBits[crc \in Nat, n \in Nat] == IF n = 0 THEN crc ELSE CrcBits[CrcBit[crc], n - 1]

\* the table of the reflected CRC, one entry per byte value
CrcTable == [i \in 0..255 |-> CrcBits[i, 8]]

\* one byte: crc = table[(crc ^ b) & 0xff] ^ (crc >> 8)
CrcByte[crc \in Nat, b \in 0..255] == Xor[CrcTable[Xor[crc, b] % 256], crc \div 256]

\* n equal bytes b, by halves
CrcRun[crc \in Nat, b \in 0..255, n \in Nat] ==
    IF n = 0 THEN crc
    ELSE IF n = 1 THEN CrcByte[crc, b]
    ELSE CrcRun[CrcRun[crc, b, n \div 2], b, n - (n \div 2)]

\* crcmod.mkCrcFun(0x18005, rev=True, initCrc=0xFFFF, xorOut=0x0000) applied
\* to a payload given as runs <<byte value, count>>
CrcRuns[crc \in Nat, runs \in Seq(Nat \X Nat)] ==
    IF runs = <<>> THEN crc
    ELSE CrcRuns[CrcRun[crc, Head(runs)[1], Head(runs)[2]], Tail(runs)]

crc16fn(runs) == CrcRuns[CrcInit, runs]

RECURSIVE RunsLen(_)
RunsLen(runs) == IF runs = <<>> THEN 0 ELSE Head(runs)[2] + RunsLen(Tail(runs))

\* An image file as parse_update reads it: the header fields at their fixed
\* offsets (0x00, 0x60, 0x64, 0x20, 0x40, 0x47) and the bytes from 0x100 on,
\* written as runs <<byte value, count>> of equal bytes.
ImageFile(magic, lenField, csum, payload, product16, ver40, ver47) ==
    [magic |-> magic, len60 |-> ToBytesBig(lenField, 4), csum64 |-> ToBytesBig(csum, 2),
     payload |-> payload, product16 |-> product16, ver40 |-> ver40, ver47 |-> ver47]

\* os.stat(file).st_size
FileLength(f) == HeaderSize + RunsLen(f.payload)

ProductBytes(p) == <<"J","C","_">> \o p \o <<FF, FF>>

\* the payload of an image of s bytes in all: s - 0x100 bytes 0x5a
Filled(s) == IF s > HeaderSize THEN << <<90, s - HeaderSize>> >> ELSE <<>>

GoodFiles ==
    {ImageFile(JCID, s - HeaderSize, crc16fn(Filled(s)), Filled(s),
               ProductBytes(T3S), V1234, V1000) : s \in Sizes}
    \cup {ImageFile(JCID, ChunkSize, crc16fn(Filled(ChunkSize + HeaderSize)),
                    Filled(ChunkSize + HeaderSize), ProductBytes(T3S), vers, V1234)}

BadFiles ==
    { ImageFile(<<"J","C","I","X">>, 0, CrcInit, <<>>, ProductBytes(T3S), V1234, V1000),
      ImageFile(JCID, 1, CrcInit, <<>>, ProductBytes(T3S), V1234, V1000),
      ImageFile(JCID, 0, 7, <<>>, ProductBytes(T3S), V1234, V1000),
      ImageFile(JCID, 0, CrcInit, <<>>, ProductBytes(<<>>), V1234, V1000) }

\* Small images for parse_update alone: every payload of up to MaxPayload
\* bytes, with every combination of magic, length field, stored checksum,
\* product field and version variant.
PayloadBytes == {0, 1, 255}

SmallPayloads == UNION {[1..n -> {<<b, 1>> : b \in PayloadBytes}] : n \in 0..MaxPayload}

ParseFiles ==
    {ImageFile(m, l, c, p, pr, v, V1234) :
        m \in {JCID, <<"J","C","I","X">>}, l \in 0..MaxPayload,
        c \in {crc16fn(q) : q \in SmallPayloads}, p \in SmallPayloads,
        pr \in {ProductBytes(T3S), ProductBytes(<<>>)}, v \in {V1000, vers}}

Files == GoodFiles \cup BadFiles

\* `if x is None` in place of `if not (x)`
TruthyNotNone(x) == x # None

\* `if not (x)`: None and the empty byte string are false
Truthy(x) == x # None /\ x # <<>>

\* parse_update without the checksum comparison of lines 84-86
parse_update_NoChecksum(f) ==
    IF f.magic # JCID THEN <<None, None, 0>>
    ELSE LET file_size == FileLength(f)
             fw_size == FromBytesBig(f.len60) + HeaderSize
         IN  IF file_size # fw_size THEN <<None, None, 0>>
             ELSE LET fields == Split(RStrip(f.product16, FF), "_")
                      fw_product == fields[Len(fields)]
                      fw_version == IF f.ver40 = vers THEN f.ver47 ELSE f.ver40
                  IN  <<fw_product, fw_version, file_size>>

\* parse_update: <<fw_product, fw_version, file_size>>, or <<None, None, 0>>
parse_update(f) ==
    IF f.magic # JCID THEN <<None, None, 0>>
    ELSE LET file_size == FileLength(f)
             fw_size == FromBytesBig(f.len60) + HeaderSize
         IN  IF file_size # fw_size THEN <<None, None, 0>>
             ELSE LET csum_file == FromBytesBig(f.csum64)
                      csum_calc == crc16fn(f.payload)
                  IN  IF csum_calc # csum_file THEN <<None, None, 0>>
                      ELSE LET fields == Split(RStrip(f.product16, FF), "_")
                               fw_product == fields[Len(fields)]
                               fw_version == IF f.ver40 = vers THEN f.ver47 ELSE f.ver40
                           IN  <<fw_product, fw_version, file_size>>

\* ------------------------------------------------------------- the device
\* What the device puts on the wire: a frame, null-padded or not.
RawVersion(p, v) == <<"J","C","_","V","_">> \o p \o <<"_">> \o v

RawVersions ==
    { RawVersion(T3S, V1234), RawVersion(T3S, V1000), RawVersion(T3M, V1234),
      <<"J","C">>, <<>> }

IdentityReplies == {JC_boot, JC_User, <<"J","C","_","x">>, <<>>}

ResetReplies == {JC_reset, <<"J","C","_","x">>, <<>>}

StartReplies == {update_jcxx, <<"u","p","d","a","t","e">>, <<>>}

ChunkReplies == {ack_jcxx, <<"a","c","k">>, <<>>}

Pads == {0, PadLen}

\* lines 45-46 with the strip applied to the whole response
ReceiveStripAll(wire) == RStrip(wire, NUL)

\* transfer, lines 45-46: one byte read under the timeout, then whatever
\* has arrived, stripped of trailing null bytes
Receive(wire) == Slice(wire, 1, 1) \o RStrip(From(wire, 1), NUL)

\* The outcome of one transfer: a SerialException, or the reply returned;
\* timeout tells that read(1) ran into the timeout, no byte having arrived
LinkLost == [lost |-> TRUE, timeout |-> FALSE, data |-> <<>>]

Reply(wire) == [lost |-> FALSE, timeout |-> wire = <<>>, data |-> Receive(wire)]

\* rx before the first transfer
NoTransfer == [lost |-> FALSE, timeout |-> FALSE, data |-> <<>>]

Outcomes(replies) == {LinkLost} \cup {Reply(Pad(r, k)) : r \in replies, k \in Pads}

\* what each query can come back with, computed once
VersionOutcomes == Outcomes(RawVersions)

IdentityOutcomes == Outcomes(IdentityReplies)

ResetOutcomes == Outcomes(ResetReplies)

StartOutcomes == Outcomes(StartReplies)

ChunkOutcomes == Outcomes(ChunkReplies)

get_version(raw) == LastN(raw, VersionLen)

\* get_product: split(b'_')[2]; the IndexError is None here
get_product(raw) ==
    LET fields == Split(raw, "_")
    IN  IF Len(fields) > ProductField THEN fields[ProductField + 1] ELSE None

\* connect: opened, sys.exit(1) in get_port, or serial.Serial() fails to open
ConnectOutcomes == {"ok", "SystemExit", "OpenError"}

\* ------------------------------------------------------------------ state
VARIABLES
    file,            \* the image file given to do_update
    fw,              \* <<fw_product, fw_version, fw_size>> of do_update
    pc,              \* the exchange do_update is about to make
    result,          \* "running", "success", "failure" or the exception raised
    ret,             \* the source line of the return statement taken, 0 if none
    ser,             \* self.ser: the connection in use (0: none)
    nconn,           \* connections opened so far
    handles,         \* serial ports opened and closed, in order
    trace,           \* requests written, settle waits, connects and prints
    rx,              \* outcome of the latest transfer
    product,         \* do_update: product
    identity,        \* do_update: identity, as assigned at line 181
    version,         \* do_update: version
    eb_identity,     \* enter_bootloader: identity
    eb_ret,          \* enter_bootloader: line of its return statement, 0 if none
    reset_cmd,       \* enter_bootloader: argument of the reset transfer
    update_str,      \* do_update: update_str
    offset,          \* do_update: loop variable offset
    filePos          \* read position of self.file

vars == <<file, fw, pc, result, ret, ser, nconn, handles, trace, rx, product, identity,
          version, eb_identity, eb_ret, reset_cmd, update_str, offset, filePos>>

\* ----------------------------------------------------------------- events
Tx(kind, data, pos, len) ==
    [ev |-> "tx", kind |-> kind, conn |-> ser, data |-> data, pos |-> pos, len |-> len]

Sleep == [ev |-> "sleep", kind |-> "", conn |-> 0, data |-> <<>>, pos |-> 0, len |-> SettleTime]

ConnectEv(c) ==
    [ev |-> "connect", kind |-> c, conn |-> IF c = "ok" THEN nconn + 1 ELSE 0,
     data |-> <<>>, pos |-> 0, len |-> 0]

Progress(kind, n) ==
    [ev |-> "print", kind |-> kind, conn |-> 0, data |-> <<>>, pos |-> n, len |-> 0]

\* ----------------------------------------------------------- control flow
Goto(p) == pc' = p /\ UNCHANGED <<result, ret>>

Return(v, line) ==
    pc' = "done" /\ result' = (IF v THEN "success" ELSE "failure") /\ ret' = line

Raise(e) == pc' = "done" /\ result' = e /\ UNCHANGED ret

Opened(h) == <<"open", h>>

Closed(h) == <<"close", h>>

\* Whether the Serial object that self.ser referred to is finalised, and its
\* port closed, at the moment self.ser is rebound: it is under reference
\* counting, it is not under a collector that runs later.
Finalised == BOOLEAN

\* line 38: serial.Serial(...) opens the port, then the assignment drops
\* the previous object; the code never calls close()
OpenNew ==
    \E gc \in Finalised :
        /\ ser' = nconn + 1
        /\ nconn' = nconn + 1
        /\ handles' = handles \o <<Opened(nconn + 1)>>
                         \o (IF ser # 0 /\ gc THEN <<Closed(ser)>> ELSE <<>>)

\* connect, lines 37-38 with get_port: a new connection replaces self.ser,
\* or get_port exits, or the port fails to open
Connect(c, okpc) ==
    IF c = "ok"
    THEN OpenNew /\ Goto(okpc)
    ELSE UNCHANGED <<ser, nconn, handles>> /\ Raise(c)

\* the state of a new T3XUpdater before do_update has done anything
InitLocals ==
    /\ fw = <<None, None, 0>>
    /\ pc = "parse"
    /\ result = "running"
    /\ ret = 0
    /\ ser = 0
    /\ nconn = 0
    /\ handles = <<>>
    /\ trace = <<>>
    /\ rx = NoTransfer
    /\ product = None
    /\ identity = None
    /\ version = None
    /\ eb_identity = None
    /\ eb_ret = 0
    /\ reset_cmd = None
    /\ update_str = None
    /\ offset = 0
    /\ filePos = 0

Init == file \in Files /\ InitLocals

\* parse_update on its own, over the small images
InitParse == file \in ParseFiles /\ InitLocals

\* -------------------------------------------------------------- do_update
\* lines 126-128
ParseUpdate ==
    /\ pc = "parse"
    /\ fw' = parse_update(file)
    /\ IF Truthy(fw'[1]) /\ Truthy(fw'[2]) THEN Goto("connect") ELSE Return(FALSE, 128)
    /\ UNCHANGED <<file, ser, nconn, handles, trace, rx, product, identity, version,
                   eb_identity, eb_ret, reset_cmd, update_str, offset, filePos>>

\* line 130
OpenConnection ==
    /\ pc = "connect"
    /\ \E c \in ConnectOutcomes :
          /\ trace' = Append(trace, ConnectEv(c))
          /\ Connect(c, "product")
    /\ UNCHANGED <<file, fw, rx, product, identity, version, eb_identity,
                   eb_ret, reset_cmd, update_str, offset, filePos>>

\* line 132 without the comparison
ProductMatchesAny(fw_product, hw_product) == TRUE

\* line 132
ProductMatches(fw_product, hw_product) == fw_product = hw_product

\* lines 131-134
GetProduct ==
    /\ pc = "product"
    /\ \E o \in VersionOutcomes :
          /\ rx' = o
          /\ trace' = Append(trace, Tx("version", JC_version, 0, 0))
          /\ IF o.lost THEN Raise("SerialException") /\ UNCHANGED product
             ELSE IF get_product(o.data) = None THEN Raise("IndexError") /\ UNCHANGED product
             ELSE /\ product' = get_product(o.data)
                  /\ IF ProductMatches(fw[1], product') THEN Goto("raw_version")
                     ELSE Return(FALSE, 134)
    /\ UNCHANGED <<file, fw, ser, nconn, handles, identity, version, eb_identity,
                   eb_ret, reset_cmd, update_str, offset, filePos>>

\* line 136: the reply is not used again
GetRawVersion ==
    /\ pc = "raw_version"
    /\ \E o \in VersionOutcomes :
          /\ rx' = o
          /\ trace' = Append(trace, Tx("version", JC_version, 0, 0))
          /\ IF o.lost THEN Raise("SerialException") ELSE Goto("identity")
    /\ UNCHANGED <<file, fw, ser, nconn, handles, product, identity, version, eb_identity,
                   eb_ret, reset_cmd, update_str, offset, filePos>>

\* line 137: the reply is overwritten at line 181 before it is read
GetIdentity ==
    /\ pc = "identity"
    /\ \E o \in IdentityOutcomes :
          /\ rx' = o
          /\ trace' = Append(trace, Tx("identity", JC_identity, 0, 0))
          /\ IF o.lost THEN Raise("SerialException") ELSE Goto("eb_identity")
    /\ UNCHANGED <<file, fw, ser, nconn, handles, product, identity, version, eb_identity,
                   eb_ret, reset_cmd, update_str, offset, filePos>>

\* ------------------------------------------------------- enter_bootloader
\* line 102 comparing with a misspelt token
IsBootMisspelt(id) == id = <<"J","C","_","B","o","o","t">>

\* line 102 taking user mode for bootloader mode as well
IsBootOrUser(id) == id \in {JC_boot, JC_User}

\* line 102
IsBoot(id) == id = JC_boot

\* line 105 as a plain else
IsUserNotBoot(id) == id # JC_boot

\* line 105
IsUser(id) == id = JC_User

\* lines 101-105 and 122-123, called from line 139
EB_Identity ==
    /\ pc = "eb_identity"
    /\ \E o \in IdentityOutcomes :
          /\ rx' = o
          /\ trace' = Append(trace, Tx("identity", JC_identity, 0, 0))
          /\ IF o.lost THEN Raise("SerialException") /\ UNCHANGED <<eb_identity, eb_ret>>
             ELSE /\ eb_identity' = o.data
                  /\ IF IsBoot(o.data) THEN eb_ret' = 103 /\ Goto("bl_version")
                     ELSE IF IsUser(o.data) THEN eb_ret' = 0 /\ Goto("eb_raw_version")
                     ELSE eb_ret' = 123 /\ Return(FALSE, 140)
    /\ UNCHANGED <<file, fw, ser, nconn, handles, product, identity, version,
                   reset_cmd, update_str, offset, filePos>>

\* line 108, the argument self.get_raw_version() inside the try; a link
\* loss is caught (109-110) and the finally clause (114-116) runs
EB_RawVersion ==
    /\ pc = "eb_raw_version"
    /\ \E o \in VersionOutcomes, c \in ConnectOutcomes :
          /\ rx' = o
          /\ IF o.lost
             THEN /\ trace' = trace \o <<Tx("version", JC_version, 0, 0), Sleep, ConnectEv(c)>>
                  /\ Connect(c, "eb_identity2")
                  /\ UNCHANGED reset_cmd
             ELSE /\ trace' = Append(trace, Tx("version", JC_version, 0, 0))
                  /\ reset_cmd' = o.data
                  /\ Goto("eb_reset")
                  /\ UNCHANGED <<ser, nconn, handles>>
    /\ UNCHANGED <<file, fw, product, identity, version, eb_identity, eb_ret,
                   update_str, offset, filePos>>

\* lines 108-116 without the except clause: finally runs, then the
\* SerialException propagates
EB_ResetPropagates ==
    /\ pc = "eb_reset"
    /\ \E o \in ResetOutcomes, c \in ConnectOutcomes :
          /\ rx' = o
          /\ trace' = trace \o <<Tx("reset", reset_cmd, 0, 0), Sleep, ConnectEv(c)>>
          /\ IF o.lost /\ c = "ok"
             THEN OpenNew /\ Raise("SerialException")
             ELSE Connect(c, "eb_identity2")
    /\ UNCHANGED <<file, fw, product, identity, version, eb_identity, eb_ret,
                   reset_cmd, update_str, offset, filePos>>

\* lines 108-116: the reset transfer; link loss caught, a reply other than
\* JC_reset only warned about, then the settle wait and connect of finally
EB_Reset ==
    /\ pc = "eb_reset"
    /\ \E o \in ResetOutcomes, c \in ConnectOutcomes :
          /\ rx' = o
          /\ trace' = trace \o <<Tx("reset", reset_cmd, 0, 0), Sleep, ConnectEv(c)>>
          /\ Connect(c, "eb_identity2")
    /\ UNCHANGED <<file, fw, product, identity, version, eb_identity, eb_ret,
                   reset_cmd, update_str, offset, filePos>>

\* line 118
EB_Identity2 ==
    /\ pc = "eb_identity2"
    /\ \E o \in IdentityOutcomes :
          /\ rx' = o
          /\ trace' = Append(trace, Tx("identity", JC_identity, 0, 0))
          /\ IF o.lost THEN Raise("SerialException") /\ UNCHANGED eb_identity
             ELSE eb_identity' = o.data /\ Goto("eb_identity3")
    /\ UNCHANGED <<file, fw, ser, nconn, handles, product, identity, version, eb_ret,
                   reset_cmd, update_str, offset, filePos>>

\* lines 119-123 with one more attempt at the reset when the device is not
\* in the bootloader yet
EB_Identity3Retry ==
    /\ pc = "eb_identity3"
    /\ \E o \in IdentityOutcomes :
          /\ rx' = o
          /\ trace' = Append(trace, Tx("identity", JC_identity, 0, 0))
          /\ IF o.lost THEN Raise("SerialException") /\ UNCHANGED eb_ret
             ELSE IF IsBoot(o.data) THEN eb_ret' = 120 /\ Goto("bl_version")
             ELSE IF nconn < 3 THEN eb_ret' = 0 /\ Goto("eb_raw_version")
             ELSE eb_ret' = 123 /\ Return(FALSE, 140)
    /\ UNCHANGED <<file, fw, ser, nconn, handles, product, identity, version, eb_identity,
                   reset_cmd, update_str, offset, filePos>>

\* lines 119-123: a second identity query decides
EB_Identity3 ==
    /\ pc = "eb_identity3"
    /\ \E o \in IdentityOutcomes :
          /\ rx' = o
          /\ trace' = Append(trace, Tx("identity", JC_identity, 0, 0))
          /\ IF o.lost THEN Raise("SerialException") /\ UNCHANGED eb_ret
             ELSE IF IsBoot(o.data) THEN eb_ret' = 120 /\ Goto("bl_version")
             ELSE eb_ret' = 123 /\ Return(FALSE, 140)
    /\ UNCHANGED <<file, fw, ser, nconn, handles, product, identity, version, eb_identity,
                   reset_cmd, update_str, offset, filePos>>

\* ------------------------------------------------------ do_update, upload
\* lines 142-143: bl_version is only logged
GetBLVersion ==
    /\ pc = "bl_version"
    /\ \E o \in VersionOutcomes :
          /\ rx' = o
          /\ trace' = Append(trace, Tx("version", JC_version, 0, 0))
          /\ IF o.lost THEN Raise("SerialException") ELSE Goto("bl_raw_version")
    /\ UNCHANGED <<file, fw, ser, nconn, handles, product, identity, version, eb_identity,
                   eb_ret, reset_cmd, update_str, offset, filePos>>

\* line 146
UpdateStr(fw_size, bl_raw_version) == Hex8(fw_size) \o From(bl_raw_version, UpdateStrSkip)

\* lines 145-146
GetBLRawVersion ==
    /\ pc = "bl_raw_version"
    /\ \E o \in VersionOutcomes :
          /\ rx' = o
          /\ trace' = Append(trace, Tx("version", JC_version, 0, 0))
          /\ IF o.lost THEN Raise("SerialException") /\ UNCHANGED update_str
             ELSE update_str' = UpdateStr(fw[3], o.data) /\ Goto("start")
    /\ UNCHANGED <<file, fw, ser, nconn, handles, product, identity, version, eb_identity,
                   eb_ret, reset_cmd, offset, filePos>>

\* line 148 accepting any non-empty reply
StartAckedNonEmpty(ack) == ack # <<>>

\* line 148
StartAcked(ack) == ack = update_jcxx

\* lines 147-154: the start command; on its acknowledgment the file is
\* rewound and the loop starts at offset 0 (fw_size >= 0x100, so range(0,
\* fw_size, 2048) is never empty)
UpdateStart ==
    /\ pc = "start"
    /\ \E o \in StartOutcomes :
          /\ rx' = o
          /\ trace' = Append(trace, Tx("start", update_str, 0, 0))
          /\ IF o.lost THEN Raise("SerialException") /\ UNCHANGED <<offset, filePos>>
             ELSE IF StartAcked(o.data)
             THEN filePos' = 0 /\ offset' = 0 /\ Goto("chunk")
             ELSE Return(FALSE, 150) /\ UNCHANGED <<offset, filePos>>
    /\ UNCHANGED <<file, fw, ser, nconn, handles, product, identity, version, eb_identity,
                   eb_ret, reset_cmd, update_str>>

\* self.file.read(n) at position pos of a file of flen bytes: the length read
FileRead(pos, n, flen) == Max(0, Min(n, flen - pos))

\* line 161 ignoring the reply
ChunkAckedAny(ack) == TRUE

\* line 161
ChunkAcked(ack) == ack = ack_jcxx

\* line 165 tolerating a link loss anywhere in the last 256 bytes
TailToleratedWindow(off, fw_size) == off >= fw_size - TailWindow

\* line 165 tolerating a link loss one chunk before the tail
TailToleratedEarly(off, fw_size) == off = fw_size - TailWindow - ChunkSize

\* line 165 tolerating a link loss anywhere in the last chunk
TailToleratedLastChunk(off, fw_size) == off >= fw_size - ChunkSize

\* line 165
TailTolerated(off, fw_size) == off = fw_size - TailWindow

\* line 172 with round() in place of int()
PercentRounded(off, fw_size) == (off * 100 + fw_size \div 2) \div fw_size

\* line 172 computed from the end of the chunk
PercentAfter(off, fw_size) == (Min(off + ChunkSize, fw_size) * 100) \div fw_size

\* line 172
Percent(off, fw_size) == (off * 100) \div fw_size

\* line 154 looping over the payload length, range(0, fw_size - 0x100, 2048)
HasNextPayload(off, fw_size) == off + ChunkSize < fw_size - HeaderSize

\* line 154: range(0, fw_size, 2048) has a value after off
HasNext(off, fw_size) == off + ChunkSize < fw_size

\* lines 176-180 after the loop: the final print, the settle wait, connect
AfterLoop(c) == <<Progress("final", 100), Sleep, ConnectEv(c)>>

\* lines 154-174 for one offset, and 176-180 when the loop ends with it
SendChunk ==
    /\ pc = "chunk"
    /\ \E o \in ChunkOutcomes, c \in ConnectOutcomes :
        LET len == FileRead(filePos, ChunkSize, FileLength(file))
            tx == Tx("chunk", <<>>, filePos, len)
            pct == Progress("percent", Percent(offset, fw[3]))
        IN  IF len = 0
            THEN /\ trace' = trace \o AfterLoop(c)
                 /\ Connect(c, "verify_identity")
                 /\ UNCHANGED <<rx, offset, filePos>>
            ELSE /\ rx' = o
                 /\ filePos' = filePos + len
                 /\ IF ~o.lost /\ ~ChunkAcked(o.data)
                    THEN /\ trace' = Append(trace, tx)
                         /\ Return(FALSE, 163)
                         /\ UNCHANGED <<ser, nconn, handles, offset>>
                    ELSE IF o.lost /\ ~TailTolerated(offset, fw[3])
                    THEN /\ trace' = Append(trace, tx)
                         /\ Return(FALSE, 170)
                         /\ UNCHANGED <<ser, nconn, handles, offset>>
                    ELSE IF HasNext(offset, fw[3])
                    THEN /\ trace' = trace \o <<tx, pct>>
                         /\ offset' = offset + ChunkSize
                         /\ Goto("chunk")
                         /\ UNCHANGED <<ser, nconn, handles>>
                    ELSE /\ trace' = trace \o <<tx, pct>> \o AfterLoop(c)
                         /\ Connect(c, "verify_identity")
                         /\ UNCHANGED offset
    /\ UNCHANGED <<file, fw, product, identity, version, eb_identity, eb_ret,
                   reset_cmd, update_str>>

\* line 181
VerifyIdentity ==
    /\ pc = "verify_identity"
    /\ \E o \in IdentityOutcomes :
          /\ rx' = o
          /\ trace' = Append(trace, Tx("identity", JC_identity, 0, 0))
          /\ IF o.lost THEN Raise("SerialException") /\ UNCHANGED identity
             ELSE identity' = o.data /\ Goto("verify_version")
    /\ UNCHANGED <<file, fw, ser, nconn, handles, product, version, eb_identity, eb_ret,
                   reset_cmd, update_str, offset, filePos>>

\* line 183 with `or` for `and`
VerifiedEither(id, ver, fw_version) == id = JC_User \/ ver = fw_version

\* line 183
Verified(id, ver, fw_version) == id = JC_User /\ ver = fw_version

\* lines 182-189
VerifyVersion ==
    /\ pc = "verify_version"
    /\ \E o \in VersionOutcomes :
          /\ rx' = o
          /\ trace' = Append(trace, Tx("version", JC_version, 0, 0))
          /\ IF o.lost THEN Raise("SerialException") /\ UNCHANGED version
             ELSE /\ version' = get_version(o.data)
                  /\ IF Verified(identity, version', fw[2]) THEN Return(TRUE, 189)
                     ELSE Return(FALSE, 185)
    /\ UNCHANGED <<file, fw, ser, nconn, handles, product, identity, eb_identity, eb_ret,
                   reset_cmd, update_str, offset, filePos>>

Next ==
    \/ ParseUpdate
    \/ OpenConnection
    \/ GetProduct
    \/ GetRawVersion
    \/ GetIdentity
    \/ EB_Identity
    \/ EB_RawVersion
    \/ EB_Reset
    \/ EB_Identity2
    \/ EB_Identity3
    \/ GetBLVersion
    \/ GetBLRawVersion
    \/ UpdateStart
    \/ SendChunk
    \/ VerifyIdentity
    \/ VerifyVersion

Spec == Init /\ [][Next]_vars

NextParse == ParseUpdate

SpecParse == InitParse /\ [][NextParse]_vars

\* do_update runs on one thread and every transfer and connect returns, so
\* the run takes its next step as long as it has one
SpecFair == Spec /\ WF_vars(Next)

TypeOK ==
    /\ pc \in {"parse", "connect", "product", "raw_version", "identity", "eb_identity",
               "eb_raw_version", "eb_reset", "eb_identity2", "eb_identity3",
               "bl_version", "bl_raw_version", "start", "chunk", "verify_identity",
               "verify_version", "done"}
    /\ result \in {"running", "success", "failure", "SerialException", "IndexError",
                   "SystemExit", "OpenError"}
    /\ (pc = "done") = (result # "running")
    /\ ser \in 0..nconn

\* ------------------------------------------------------------- properties
IsTx(e, kind) == e.ev = "tx" /\ e.kind = kind

IsChunk(e) == IsTx(e, "chunk")

Chunks == SelectSeq(trace, IsChunk)

HasTx(kind) == \E i \in 1..Len(trace) : IsTx(trace[i], kind)

\* The step sends a chunk: the event appended first is a chunk request.
ChunkStep == pc = "chunk" /\ Len(trace') > Len(trace) /\ IsChunk(trace'[Len(trace) + 1])

ChunkTx == trace'[Len(trace) + 1]

ConnectFailed(r) == r \in {"SystemExit", "OpenError"}

\* C1: when the image's product differs from the product the device reports,
\* do_update has returned failure at line 134 and all it did with the device
\* is open the connection and ask for the version: no reset command, no
\* update-start command, no chunk.
C1_MismatchAborts ==
    (product # None /\ product # fw[1]) =>
        /\ pc = "done" /\ result = "failure" /\ ret = 134
        /\ Len(trace) = 2
        /\ trace[1].ev = "connect"
        /\ IsTx(trace[2], "version")
        /\ ~HasTx("reset") /\ ~HasTx("start") /\ ~HasTx("chunk")

C1_Witness == product = T3M /\ fw[1] = T3S /\ ret = 134

\* C2: a link loss on the chunk at file offset S - 256 ends the loop as a
\* soft success (progress, final print, settle wait, reconnect, and the
\* run goes on to verification when the connect succeeds); a link loss on a
\* chunk at any other offset returns failure at once.
C2_TailDisconnect ==
    [][ (ChunkStep /\ rx'.lost) =>
          IF ChunkTx.pos = fw[3] - TailWindow
          THEN /\ Len(trace') = Len(trace) + 5
               /\ trace'[Len(trace) + 2].ev = "print"
               /\ trace'[Len(trace) + 3] = Progress("final", 100)
               /\ trace'[Len(trace) + 4] = Sleep
               /\ trace'[Len(trace) + 5].ev = "connect"
               /\ IF trace'[Len(trace) + 5].kind = "ok"
                  THEN pc' = "verify_identity" /\ result' = "running" /\ ser' = nconn + 1
                  ELSE ConnectFailed(result')
          ELSE /\ pc' = "done" /\ result' = "failure" /\ ret' = 170
               /\ trace' = Append(trace, ChunkTx) ]_vars

C2_Witness == pc = "verify_identity" /\ rx.lost /\ offset > 0

\* C3: a reply other than ack_jcxx to a chunk returns failure at once: the
\* chunk is the last thing the run does (no reconnect, no verification, no
\* further chunk), nothing follows a finished run, and no chunk offset is
\* ever sent twice.
C3_NakAborts ==
    /\ [](\A i, j \in 1..Len(Chunks) : Chunks[i].pos = Chunks[j].pos => i = j)
    /\ [][ /\ pc # "done"
           /\ (ChunkStep /\ ~rx'.lost /\ rx'.data # ack_jcxx) =>
                 /\ pc' = "done" /\ result' = "failure" /\ ret' = 163
                 /\ trace' = Append(trace, ChunkTx)
                 /\ ser' = ser /\ nconn' = nconn ]_vars

C3_Witness == ret = 163 /\ ~rx.lost /\ rx.data # ack_jcxx /\ Len(Chunks) >= 2

\* C4: the chunk loop is entered only by the reply update_jcxx to the
\* update-start command; any other reply, the empty one included, returns
\* failure, and a run that did not get update_jcxx never has a chunk sent.
C4_StartAck ==
    /\ [](HasTx("chunk") => HasTx("start") /\ ret # 150)
    /\ [](ret = 150 => ~HasTx("chunk") /\ result = "failure" /\ rx.data # update_jcxx)
    /\ [][ /\ (pc # "chunk" /\ pc' = "chunk") =>
                 (pc = "start" /\ ~rx'.lost /\ rx'.data = update_jcxx)
           /\ (pc = "start" /\ ~rx'.lost /\ rx'.data # update_jcxx) =>
                 (pc' = "done" /\ result' = "failure" /\ ret' = 150) ]_vars

C4_Witness == ret = 150 /\ rx = Reply(<<>>) /\ HasTx("start")

\* C5: do_update succeeds only by the return at line 189, after the final
\* print, the settle wait and a successful reconnect, with identity JC_User
\* and the version of the image both read on the new connection; a
\* verification with any other identity or version returns failure.
C5_VerifiedSuccess ==
    /\ [](result = "success" =>
            /\ ret = 189 /\ identity = JC_User /\ version = fw[2]
            /\ Len(trace) >= 5
            /\ trace[Len(trace) - 4] = Progress("final", 100)
            /\ trace[Len(trace) - 3] = Sleep
            /\ trace[Len(trace) - 2].ev = "connect" /\ trace[Len(trace) - 2].conn = ser
            /\ IsTx(trace[Len(trace) - 1], "identity") /\ trace[Len(trace) - 1].conn = ser
            /\ IsTx(trace[Len(trace)], "version") /\ trace[Len(trace)].conn = ser)
    /\ [](ret = 185 => result = "failure" /\ ~(identity = JC_User /\ version = fw[2]))
    /\ [][ (pc = "verify_version" /\ ~rx'.lost) =>
             /\ version' = LastN(rx'.data, VersionLen)
             /\ IF identity = JC_User /\ version' = fw[2]
                THEN result' = "success"
                ELSE result' = "failure" /\ ret' = 185 ]_vars

C5_Witness == result = "success" /\ file.ver40 = vers

\* C6: the chunks sent are at file offsets 0, 2048, 4096, ... in this order,
\* each 2048 bytes long except a shorter last one of S mod 2048 bytes, and
\* once the loop has ended with every chunk sent they cover exactly [0, S).
LoopEnded == \E i \in 1..Len(trace) : trace[i] = Progress("final", 100)

C6_ChunkSequence ==
    /\ \A k \in 1..Len(Chunks) :
          /\ Chunks[k].pos = (k - 1) * ChunkSize
          /\ Chunks[k].pos < fw[3]
          /\ Chunks[k].len = IF k * ChunkSize <= fw[3] THEN ChunkSize ELSE fw[3] % ChunkSize
    /\ LoopEnded =>
          /\ Len(Chunks) >= 1
          /\ Chunks[Len(Chunks)].pos + Chunks[Len(Chunks)].len = fw[3]

C6_Witness ==
    /\ LoopEnded /\ ~rx.lost /\ pc = "verify_identity"
    /\ Len(Chunks) = 2 /\ Chunks[2].len = TailWindow + 1

\* C7: when the first identity reply of enter_bootloader is JC_boot it
\* returns True at line 103: the identity query is all it wrote, there is no
\* settle wait and the connection is the one it was called with.
C7_AlreadyInBootloader ==
    /\ [][ (pc = "eb_identity" /\ ~rx'.lost /\ rx'.data = JC_boot) =>
             /\ eb_ret' = 103 /\ pc' = "bl_version" /\ result' = "running"
             /\ trace' = Append(trace, Tx("identity", JC_identity, 0, 0))
             /\ ser' = ser /\ nconn' = nconn ]_vars
    /\ [](eb_ret = 103 => ~HasTx("reset") /\ eb_identity = JC_boot)

C7_Witness == eb_ret = 103 /\ pc = "bl_version" /\ nconn = 1

\* C8: the upload phase is entered only by the reply JC_boot to an identity
\* query of enter_bootloader, made on the connection in use; the two version
\* queries, the update-start command and every chunk then go over that same
\* connection; after a failed enter_bootloader there is no update-start
\* command and no chunk.
C8_BootConfirmedFirst ==
    /\ [][ (pc # "bl_version" /\ pc' = "bl_version") =>
             /\ pc \in {"eb_identity", "eb_identity3"}
             /\ ~rx'.lost /\ rx'.data = JC_boot
             /\ ser' = ser
             /\ trace' = Append(trace, Tx("identity", JC_identity, 0, 0)) ]_vars
    /\ [](\A i \in 1..Len(trace) :
            IsTx(trace[i], "start") =>
               /\ i > 3
               /\ IsTx(trace[i - 3], "identity") /\ trace[i - 3].conn = trace[i].conn
               /\ IsTx(trace[i - 2], "version") /\ trace[i - 2].conn = trace[i].conn
               /\ IsTx(trace[i - 1], "version") /\ trace[i - 1].conn = trace[i].conn
               /\ \A j \in 1..Len(trace) :
                     /\ (IsTx(trace[j], "start") => j = i)
                     /\ (IsChunk(trace[j]) => j > i /\ trace[j].conn = trace[i].conn))
    /\ [](HasTx("chunk") => HasTx("start"))
    /\ [](eb_ret = 123 => ret = 140 /\ ~HasTx("start") /\ ~HasTx("chunk"))

C8_Witness == eb_ret = 120 /\ HasTx("chunk") /\ Chunks[1].conn = 2

\* C9: from user mode, whatever the reset exchange gives - JC_reset, another
\* or no reply, or a link loss - no SerialException leaves it, the settle
\* wait and connect follow the request at once, and the next identity query
\* is made only after them, on the new connection.
ResetExchange == pc = "eb_reset" \/ (pc = "eb_raw_version" /\ rx'.lost)

C9_ResetThenReconnect ==
    /\ [][ ResetExchange =>
             /\ result' # "SerialException"
             /\ Len(trace') = Len(trace) + 3
             /\ trace'[Len(trace) + 1].ev = "tx"
             /\ trace'[Len(trace) + 2] = Sleep
             /\ trace'[Len(trace) + 3].ev = "connect"
             /\ IF trace'[Len(trace) + 3].kind = "ok"
                THEN pc' = "eb_identity2" /\ ser' = nconn + 1 /\ result' = "running"
                ELSE ConnectFailed(result') ]_vars
    /\ [][ pc' = "eb_identity2" => ResetExchange ]_vars
    /\ [](pc = "eb_identity2" =>
            /\ trace[Len(trace) - 1] = Sleep
            /\ trace[Len(trace)].ev = "connect" /\ trace[Len(trace)].conn = ser)

C9_Witness ==
    /\ pc = "eb_identity2" /\ rx.lost
    /\ IsTx(trace[Len(trace) - 2], "reset")

\* C10: after the reconnect the decision of enter_bootloader agrees with the
\* identity it recorded: True exactly when the recorded identity is JC_boot.
ViaReset == eb_ret \in {120, 123} /\ HasTx("identity") /\ \E i \in 1..Len(trace) : trace[i] = Sleep

C10_DecisionOnRecordedIdentity ==
    ViaReset => ((eb_ret = 120) <=> (eb_identity = JC_boot))

\* C11: in a run on a well-formed image 100% is printed exactly once, by the
\* final print after the loop and never by the loop; a finished run that is
\* not a success ended on a deviation of the device at its last exchange (a
\* link loss, a failed connect, or a reply other than the expected one), so
\* a device that acknowledges every step and verifies gets success.
Hundreds == {i \in 1..Len(trace) : trace[i].ev = "print" /\ trace[i].pos = 100}

DeviceDeviated ==
    \/ rx.lost
    \/ ConnectFailed(result)
    \/ result = "IndexError"
    \/ ret = 134 /\ product # fw[1]
    \/ ret = 140 /\ rx.data # JC_boot
    \/ ret = 150 /\ rx.data # update_jcxx
    \/ ret = 163 /\ rx.data # ack_jcxx
    \/ ret = 185 /\ ~(identity = JC_User /\ version = fw[2])

C11_SuccessAndHundredOnce ==
    /\ \A i \in Hundreds : trace[i] = Progress("final", 100)
    /\ Cardinality(Hundreds) = (IF LoopEnded THEN 1 ELSE 0)
    /\ result = "success" => LoopEnded
    /\ (pc = "done" /\ ret # 128 /\ result # "success") => DeviceDeviated

C11_Witness ==
    /\ result = "success" /\ Len(Chunks) = 2
    /\ \A i \in 1..Len(trace) : IsChunk(trace[i]) => trace[i + 1].ev = "print"
    /\ nconn = 2

\* C12: what parse_update returns is a product and a version exactly for the
\* images with the magic JCID, a length equal to the big-endian field at 0x60
\* plus 0x100 and a stored big-endian checksum equal to the CRC-16 of the
\* bytes from 0x100 on, and then the size returned is the file length; for
\* every other image it returns neither product nor version.
ImagePasses(f) ==
    /\ f.magic = JCID
    /\ HeaderSize + RunsLen(f.payload) =
          f.len60[1] * 16777216 + f.len60[2] * 65536 + f.len60[3] * 256 + f.len60[4] + 256
    /\ crc16fn(f.payload) = f.csum64[1] * 256 + f.csum64[2]

C12_ParseGates ==
    pc # "parse" =>
        IF ImagePasses(file)
        THEN fw[1] # None /\ fw[2] # None /\ fw[3] = HeaderSize + RunsLen(file.payload)
        ELSE fw = <<None, None, 0>>

C12_Witness ==
    /\ pc = "connect" /\ fw[1] = T3S /\ fw[2] = V1234 /\ fw[3] = HeaderSize + 2
    /\ file.ver40 = vers

\* C13 as claimed: a transfer whose first byte timed out does not return a
\* response value to its caller.
Returned(o) == ~o.lost

AnyTx == \E i \in 1..Len(trace) : trace[i].ev = "tx"

C13_TimeoutIsError == rx.timeout => ~Returned(rx)

\* C13 as amended: a transfer to which no response byte arrives raises
\* nothing and returns the empty byte string, and a transfer returns the
\* empty byte string only then; the run goes on as after any other reply,
\* with no exception and never to success at that exchange.
C13_TimeoutReturnsEmpty ==
    /\ rx.timeout =>
          /\ Returned(rx) /\ rx.data = <<>>
          /\ result \notin {"SerialException", "success"}
    /\ (AnyTx /\ Returned(rx) /\ rx.data = <<>>) => rx.timeout

C13_Witness ==
    /\ rx.timeout /\ pc = "eb_identity2"
    /\ IsTx(trace[Len(trace) - 2], "reset")

\* C14: at every moment at most one serial port is open: each port opened
\* after the first finds the one before it already closed.
OpenAfter(k) ==
    {h \in 1..nconn :
        /\ \E i \in 1..k : handles[i] = Opened(h)
        /\ ~\E i \in 1..k : handles[i] = Closed(h)}

C14_OneHandleOpen == \A k \in 0..Len(handles) : Cardinality(OpenAfter(k)) <= 1

\* C15: every run ends; it writes at most one request per chunk of the image
\* and one for each of the thirteen other exchanges in the code, and a run
\* that has ended, in success or failure, does nothing more.
RequestSites ==
    {"product", "raw_version", "identity", "eb_identity", "eb_raw_version", "eb_reset",
     "eb_identity2", "eb_identity3", "bl_version", "bl_raw_version", "start",
     "verify_identity", "verify_version"}

NumChunks == (fw[3] + ChunkSize - 1) \div ChunkSize

TxCount == Cardinality({i \in 1..Len(trace) : trace[i].ev = "tx"})

C15_Terminates ==
    /\ <>(pc = "done")
    /\ [](TxCount <= NumChunks + Cardinality(RequestSites))
    /\ [](Len(Chunks) <= NumChunks)
    /\ [][pc # "done" /\ TxCount' <= TxCount + 1]_vars

C15_Witness ==
    /\ pc = "done" /\ result = "failure" /\ ret = 185
    /\ TxCount = 2 + Cardinality(RequestSites)

\* C16: a link loss on a chunk that does not fail the run happens on the chunk
\* at offset S - 256 and ends the loop in that step: after the chunk come only
\* the progress prints, the settle wait and connect; no request after the end
\* of the loop is a chunk or goes to the connection the chunks went to; and
\* the request that follows is the identity query on the new connection.
TailLossTolerated == ChunkStep /\ rx'.lost /\ ret' # 170

AfterTailLoss == pc = "verify_identity" /\ rx.lost

C16_TailLossEndsLoop ==
    /\ [][ TailLossTolerated =>
             /\ ChunkTx.pos = fw[3] - TailWindow
             /\ Len(trace') = Len(trace) + 5
             /\ trace'[Len(trace) + 2].ev = "print"
             /\ trace'[Len(trace) + 3] = Progress("final", 100)
             /\ trace'[Len(trace) + 4] = Sleep
             /\ trace'[Len(trace) + 5].ev = "connect"
             /\ IF trace'[Len(trace) + 5].kind = "ok"
                THEN pc' = "verify_identity" /\ ser' # ser /\ ser' = trace'[Len(trace) + 5].conn
                ELSE pc' = "done" /\ ConnectFailed(result') ]_vars
    /\ [][ AfterTailLoss =>
             /\ trace[Len(trace)].ev = "connect" /\ trace[Len(trace)].conn = ser
             /\ trace' = Append(trace, Tx("identity", JC_identity, 0, 0)) ]_vars
    /\ [](\A i, j \in 1..Len(trace) :
             (trace[i] = Progress("final", 100) /\ j > i /\ trace[j].ev = "tx") =>
                 ~IsChunk(trace[j]) /\ trace[j].conn # Chunks[Len(Chunks)].conn)

C16_Witness == AfterTailLoss /\ Len(Chunks) = 2 /\ Chunks[2].pos = fw[3] - TailWindow

\* C17: the percentages printed in the loop never decrease; each follows its
\* chunk and is floor(offset * 100 / S) for that chunk's offset; each is
\* below 100.
IsPercent(e) == e.ev = "print" /\ e.kind = "percent"

Percents == SelectSeq(trace, IsPercent)

C17_ProgressMonotone ==
    /\ \A i \in 1..Len(trace) :
          IsPercent(trace[i]) =>
              /\ i > 1 /\ IsChunk(trace[i - 1])
              /\ trace[i].pos = (trace[i - 1].pos * 100) \div fw[3]
              /\ trace[i].pos < 100
    /\ \A k, l \in 1..Len(Percents) : k < l => Percents[k].pos <= Percents[l].pos

C17_Witness == Len(Percents) = 2 /\ Percents[2].pos = 50 /\ result = "success"

\* C18: a link loss on a chunk is tolerated only when S mod 2048 = 256 and
\* the chunk is the last one of the image; on every other chunk, the last
\* chunk of an image with S mod 2048 # 256 included, it ends the run with
\* failure at line 170.
ChunkLost == ChunkStep /\ rx'.lost

TailAligned == fw[3] % ChunkSize = TailWindow

IsLastChunk(e) == e.pos + e.len = fw[3]

C18_ToleranceNeedsAlignedTail ==
    [][ ChunkLost =>
          IF TailAligned /\ IsLastChunk(ChunkTx)
          THEN ret' # 170 /\ result' # "failure"
          ELSE pc' = "done" /\ result' = "failure" /\ ret' = 170 ]_vars

C18_Witness ==
    /\ pc = "done" /\ result = "failure" /\ ret = 170 /\ rx.lost
    /\ ~TailAligned
    /\ Len(Chunks) = 2 /\ IsLastChunk(Chunks[2])

\* C19: an image that parse_update rejects, or whose product identifier is
\* empty, makes do_update return failure at line 128 with no connection
\* opened and no request sent.
NoProduct == fw[1] = None \/ fw[1] = <<>>

NothingDone == trace = <<>> /\ nconn = 0 /\ ser = 0 /\ handles = <<>> /\ rx = NoTransfer

C19_RejectedImageNoDevice ==
    /\ (pc # "parse" /\ file \in BadFiles) => NoProduct
    /\ (pc # "parse" /\ NoProduct) =>
          pc = "done" /\ result = "failure" /\ ret = 128 /\ NothingDone

C19_Witness ==
    /\ pc = "done" /\ ret = 128 /\ NothingDone
    /\ fw = <<None, None, 0>> /\ file.magic = JCID

\* C20: a first identity reply in enter_bootloader that is neither JC_boot
\* nor JC_User makes enter_bootloader return False (line 123) and do_update
\* fail (line 140) in that step, on the same connection; the run has then
\* sent no reset command, no update-start command and no chunk, has not
\* waited, and has connected once.
FirstIdentityUnknown == pc = "eb_identity" /\ ~rx'.lost /\ rx'.data \notin {JC_boot, JC_User}

C20_UnknownIdentityFails ==
    [][ FirstIdentityUnknown =>
          /\ eb_ret' = 123
          /\ pc' = "done" /\ result' = "failure" /\ ret' = 140
          /\ trace' = Append(trace, Tx("identity", JC_identity, 0, 0))
          /\ UNCHANGED <<ser, nconn, handles>>
          /\ \A i \in 1..Len(trace') :
                /\ trace'[i] # Sleep
                /\ ~IsTx(trace'[i], "reset")
                /\ ~IsTx(trace'[i], "start")
                /\ ~IsChunk(trace'[i])
          /\ Cardinality({i \in 1..Len(trace') : trace'[i].ev = "connect"}) = 1 ]_vars

C20_Witness ==
    /\ pc = "done" /\ result = "failure" /\ ret = 140 /\ eb_ret = 123
    /\ rx.data = <<>> /\ rx.timeout
    /\ nconn = 1
====
